---- MODULE Spec2Model ----
(***************************************************************************)
(* Model of example/client.py: a command-line XML-RPC invoker.             *)
(*                                                                         *)
(*     main(url, method_name, args...):                                    *)
(*         server = xmlrpclib.ServerProxy(url, ...)                        *)
(*         print('calling %s(%r) at %s' % (method_name, args, url))        *)
(*         print(getattr(server, method_name)(map(int, args)...))          *)
(*                                                                         *)
(* One run of the script is one behaviour.  The command line is chosen in  *)
(* Init; the xmlrpclib collaborator and the remote endpoint are the        *)
(* environment: proxy construction rejects a URL whose scheme is not       *)
(* http/https, a call to an unreachable host fails in the transport, and a *)
(* reachable server answers with a value, a fault, or drops the            *)
(* connection.  Strings that the script parses or formats (the argument    *)
(* tokens, the printed text) are sequences of one-character strings.       *)
(***************************************************************************)
EXTENDS Integers, Sequences, FiniteSets, TLC

\* ------------------------------------------------------------------ bounds
MaxArgs == 2      \* most integer tokens on the command line
MaxChars == 3     \* most characters of token text on the command line
MaxResult == 1    \* the server returns None or an integer in -MaxResult..MaxResult

\* ------------------------------------------------------------------ inputs
TokenChars == {"0", "1", "-", "+", " ", "x"}

RECURSIVE StringsUpTo(_)
StringsUpTo(n) ==
    IF n = 0 THEN {<<>>}
    ELSE LET shorter == StringsUpTo(n - 1)
         IN  shorter \cup {Append(s, c) : s \in {t \in shorter : Len(t) = n - 1}, c \in TokenChars}

\* the tuples of at most k tokens holding at most c characters between them
RECURSIVE TuplesUpTo(_, _)
TuplesUpTo(k, c) ==
    IF k = 0 THEN {<<>>}
    ELSE {<<>>} \cup UNION {{<<t>> \o rest : rest \in TuplesUpTo(k - 1, c - Len(t))} :
                                t \in StringsUpTo(c)}

Urls == [scheme : {"http", "ftp"}, host : {"up", "down"}]

MethodNames == {"add", "echo"}

\* sys.argv[1:] -- nothing, a url alone, or url, method_name and the tokens
CommandLines ==
    {<<>>} \cup {<<u>> : u \in Urls}
           \cup {<<u, m>> \o a : u \in Urls, m \in MethodNames, a \in TuplesUpTo(MaxArgs, MaxChars)}

\* values an XML-RPC response can carry here (allow_none=True)
NoneValue == [type |-> "none", int |-> 0]
IntValue(n) == [type |-> "int", int |-> n]
Values == {NoneValue} \cup {IntValue(n) : n \in (0 - MaxResult)..MaxResult}

\* ------------------------------------------------------------------ int()
DigitSeq == <<"0", "1", "2", "3", "4", "5", "6", "7", "8", "9">>
DigitChars == {DigitSeq[i] : i \in 1..Len(DigitSeq)}
DigitVal(c) == (CHOOSE i \in 1..Len(DigitSeq) : DigitSeq[i] = c) - 1

IsSpace(c) == c = " "

RECURSIVE LStrip(_)
LStrip(s) == IF s # <<>> /\ IsSpace(Head(s)) THEN LStrip(Tail(s)) ELSE s

RECURSIVE RStrip(_)
RStrip(s) == IF s # <<>> /\ IsSpace(s[Len(s)]) THEN RStrip(SubSeq(s, 1, Len(s) - 1)) ELSE s

Strip(s) == RStrip(LStrip(s))

HasSign(s) == s # <<>> /\ Head(s) \in {"+", "-"}

Magnitude(s) == IF HasSign(s) THEN Tail(s) ELSE s

\* int(tok) succeeds: optional blanks, optional sign, one or more digits
IsIntLiteral(tok) ==
    LET d == Magnitude(Strip(tok))
    IN  d # <<>> /\ \A i \in 1..Len(d) : d[i] \in DigitChars

RECURSIVE Accumulate(_, _)
Accumulate(d, acc) ==
    IF d = <<>> THEN acc ELSE Accumulate(Tail(d), acc * 10 + DigitVal(Head(d)))

\* variant: the sign of the literal is dropped
int_Unsigned(tok) == Accumulate(Magnitude(Strip(tok)), 0)

\* int(tok) for a valid literal (Python 2 integers do not overflow)
int(tok) ==
    LET s == Strip(tok)
        mag == Accumulate(Magnitude(s), 0)
    IN  IF HasSign(s) /\ Head(s) = "-" THEN 0 - mag ELSE mag

AllInts(tokens) == \A i \in 1..Len(tokens) : IsIntLiteral(tokens[i])

\* variant: the converted arguments come out in reverse order
MapInt_Reversed(tokens) ==
    [i \in 1..Len(tokens) |-> int(tokens[Len(tokens) + 1 - i])]

\* map(int, args)
MapInt(tokens) == [i \in 1..Len(tokens) |-> int(tokens[i])]

\* ------------------------------------------------------------------ display
RECURSIVE NatStr(_)
NatStr(n) ==
    IF n < 10 THEN <<DigitSeq[n + 1]>>
    ELSE Append(NatStr(n \div 10), DigitSeq[(n % 10) + 1])

\* what print shows for a returned value
str(v) ==
    IF v.type = "none" THEN <<"N", "o", "n", "e">>
    ELSE IF v.int < 0 THEN <<"-">> \o NatStr(0 - v.int)
    ELSE NatStr(v.int)

\* %r of one str (tokens here hold no quote, backslash or control character)
StrRepr(s) == <<"'">> \o s \o <<"'">>

RECURSIVE JoinRepr(_)
JoinRepr(t) ==
    IF Len(t) = 1 THEN StrRepr(t[1])
    ELSE StrRepr(t[1]) \o <<",", " ">> \o JoinRepr(Tail(t))

\* %r of the tuple args: (), ('2',), ('2', '3')
TupleRepr(t) ==
    IF t = <<>> THEN <<"(", ")">>
    ELSE IF Len(t) = 1 THEN <<"(">> \o StrRepr(t[1]) \o <<",", ")">>
    ELSE <<"(">> \o JoinRepr(t) \o <<")">>

\* ------------------------------------------------------------------ state
VARIABLES
    pc,            \* position of the script
    argv,          \* sys.argv[1:]
    url,           \* main's parameters, bound by the call at line 15
    method_name,
    args,
    server,        \* the ServerProxy
    ints,          \* map(int, args)
    conn,          \* the proxy's network connection: "closed" or "open"
    attempts,      \* connection attempts made
    requests,      \* remote requests sent, in order
    response,      \* what came back for the request
    stdout,        \* lines printed
    stderr,        \* uncaught exceptions reported
    exitcode       \* -1 while running, then the exit status

vars == <<pc, argv, url, method_name, args, server, ints, conn, attempts,
          requests, response, stdout, stderr, exitcode>>

NoUrl == [scheme |-> "", host |-> ""]
NoServer == [uri |-> NoUrl, verbose |-> FALSE, allow_none |-> FALSE, use_datetime |-> FALSE]
NoResponse == [kind |-> "none", value |-> NoneValue]

\* the shape of the state
TypeOK ==
    /\ pc \in {"start", "construct", "announce", "convert", "call", "wait",
               "print", "return", "done"}
    /\ Len(argv) <= MaxArgs + 2
    /\ url \in Urls \cup {NoUrl}
    /\ method_name \in MethodNames \cup {""}
    /\ Len(args) <= MaxArgs
    /\ \A i \in 1..Len(args) :
          /\ Len(args[i]) <= MaxChars
          /\ \A j \in 1..Len(args[i]) : args[i][j] \in TokenChars
    /\ server.uri \in Urls \cup {NoUrl}
    /\ Len(ints) <= Len(args)
    /\ conn \in {"closed", "open"}
    /\ attempts \in 0..1
    /\ Len(requests) <= 1
    /\ response.kind \in {"none", "value", "fault", "interrupted"}
    /\ response.value \in Values
    /\ Len(stdout) <= 2
    /\ Len(stderr) <= 1
    /\ exitcode \in {-1, 0, 1}

Init ==
    /\ pc = "start"
    /\ argv \in CommandLines
    /\ url = NoUrl
    /\ method_name = ""
    /\ args = <<>>
    /\ server = NoServer
    /\ ints = <<>>
    /\ conn = "closed"
    /\ attempts = 0
    /\ requests = <<>>
    /\ response = NoResponse
    /\ stdout = <<>>
    /\ stderr = <<>>
    /\ exitcode = -1

\* ------------------------------------------------------------------ steps
\* variant: an uncaught exception still ends the run with status 0
Raise_ExitZero(exc) ==
    /\ stderr' = Append(stderr, exc)
    /\ exitcode' = 0
    /\ conn' = "closed"
    /\ pc' = "done"

\* an exception nobody catches: traceback on stderr, the process ends with
\* status 1 and its sockets are gone
Raise(exc) ==
    /\ stderr' = Append(stderr, exc)
    /\ exitcode' = 1
    /\ conn' = "closed"
    /\ pc' = "done"

\* main(*sys.argv[1:]): fewer than two positionals is a TypeError
Start ==
    /\ pc = "start"
    /\ IF Len(argv) < 2
       THEN /\ Raise("TypeError")
            /\ UNCHANGED <<url, method_name, args>>
       ELSE /\ url' = argv[1]
            /\ method_name' = argv[2]
            /\ args' = SubSeq(argv, 3, Len(argv))
            /\ pc' = "construct"
            /\ UNCHANGED <<stderr, exitcode, conn>>
    /\ UNCHANGED <<argv, server, ints, attempts, requests, response, stdout>>

\* variant: the proxy connects as soon as it is built
Construct_Eager ==
    /\ pc = "construct"
    /\ IF url.scheme \in {"http", "https"}
       THEN /\ server' = [uri |-> url, verbose |-> TRUE, allow_none |-> TRUE,
                          use_datetime |-> TRUE]
            /\ conn' = "open"
            /\ pc' = "announce"
            /\ UNCHANGED <<stderr, exitcode>>
       ELSE /\ Raise("IOError")
            /\ UNCHANGED server
    /\ UNCHANGED <<argv, url, method_name, args, ints, attempts, requests,
                   response, stdout>>

\* server = xmlrpclib.ServerProxy(url, verbose=True, allow_none=True,
\* use_datetime=True): no connection yet; an unsupported scheme is an IOError
Construct ==
    /\ pc = "construct"
    /\ IF url.scheme \in {"http", "https"}
       THEN /\ server' = [uri |-> url, verbose |-> TRUE, allow_none |-> TRUE,
                          use_datetime |-> TRUE]
            /\ pc' = "announce"
            /\ UNCHANGED <<stderr, exitcode, conn>>
       ELSE /\ Raise("IOError")
            /\ UNCHANGED server
    /\ UNCHANGED <<argv, url, method_name, args, ints, attempts, requests,
                   response, stdout>>

\* variant: the announcement is not printed
Announce_Silent ==
    /\ pc = "announce"
    /\ pc' = "convert"
    /\ UNCHANGED <<argv, url, method_name, args, server, ints, conn, attempts,
                   requests, response, stdout, stderr, exitcode>>

\* variant: the tokens are converted before the announcement is printed
Announce_ConvertFirst ==
    /\ pc = "announce"
    /\ IF AllInts(args)
       THEN /\ stdout' = Append(stdout, [kind |-> "announce", method |-> method_name,
                                         args |-> TupleRepr(args), url |-> url])
            /\ pc' = "convert"
            /\ UNCHANGED <<stderr, exitcode, conn>>
       ELSE /\ Raise("ValueError")
            /\ UNCHANGED stdout
    /\ UNCHANGED <<argv, url, method_name, args, server, ints, attempts,
                   requests, response>>

\* print('calling %s(%r) at %s' % (method_name, args, url)): args is still
\* the tuple of command-line strings
Announce ==
    /\ pc = "announce"
    /\ stdout' = Append(stdout, [kind |-> "announce", method |-> method_name,
                                 args |-> TupleRepr(args), url |-> url])
    /\ pc' = "convert"
    /\ UNCHANGED <<argv, url, method_name, args, server, ints, conn, attempts,
                   requests, response, stderr, exitcode>>

\* variant: tokens that are not integers are skipped
Convert_Lenient ==
    /\ pc = "convert"
    /\ ints' = MapInt(SelectSeq(args, IsIntLiteral))
    /\ pc' = "call"
    /\ UNCHANGED <<argv, url, method_name, args, server, conn, attempts,
                   requests, response, stdout, stderr, exitcode>>

\* map(int, args), evaluated before the call is made: the first token that
\* is no integer literal is a ValueError
Convert ==
    /\ pc = "convert"
    /\ IF AllInts(args)
       THEN /\ ints' = MapInt(args)
            /\ pc' = "call"
            /\ UNCHANGED <<stderr, exitcode, conn>>
       ELSE /\ Raise("ValueError")
            /\ UNCHANGED ints
    /\ UNCHANGED <<argv, url, method_name, args, server, attempts, requests,
                   response, stdout>>

\* variant: an unreachable host is not noticed
Call_IgnoreDown ==
    /\ pc = "call"
    /\ attempts' = attempts + 1
    /\ conn' = "open"
    /\ requests' = Append(requests, [method |-> method_name, params |-> ints])
    /\ pc' = "wait"
    /\ UNCHANGED <<argv, url, method_name, args, server, ints, response,
                   stdout, stderr, exitcode>>

\* getattr(server, method_name)(...): the proxy connects and sends the request;
\* a host that cannot be reached is a socket.error
Call ==
    /\ pc = "call"
    /\ attempts' = attempts + 1
    /\ IF server.uri.host = "down"
       THEN /\ Raise("socket.error")
            /\ UNCHANGED requests
       ELSE /\ conn' = "open"
            /\ requests' = Append(requests, [method |-> method_name, params |-> ints])
            /\ pc' = "wait"
            /\ UNCHANGED <<stderr, exitcode>>
    /\ UNCHANGED <<argv, url, method_name, args, server, ints, response, stdout>>

\* the blocking call returns a value; the transport may keep the connection
\* for reuse or close it
ReturnValue ==
    /\ pc = "wait"
    /\ \E v \in Values : response' = [kind |-> "value", value |-> v]
    /\ conn' \in {"open", "closed"}
    /\ pc' = "print"
    /\ UNCHANGED <<argv, url, method_name, args, server, ints, attempts,
                   requests, stdout, stderr, exitcode>>

\* variant: a fault response is handed back as an ordinary value
ReturnFault_AsValue ==
    /\ pc = "wait"
    /\ response' = [kind |-> "fault", value |-> NoneValue]
    /\ conn' = "closed"
    /\ pc' = "print"
    /\ UNCHANGED <<argv, url, method_name, args, server, ints, attempts,
                   requests, stdout, stderr, exitcode>>

\* the server answers with a fault: xmlrpclib.Fault propagates out of main
ReturnFault ==
    /\ pc = "wait"
    /\ response' = [kind |-> "fault", value |-> NoneValue]
    /\ Raise("Fault")
    /\ UNCHANGED <<argv, url, method_name, args, server, ints, attempts,
                   requests, stdout>>

\* variant: the call is tried again after the connection is lost
ConnectionLost_Retry ==
    /\ pc = "wait"
    /\ response' = [kind |-> "interrupted", value |-> NoneValue]
    /\ conn' = "closed"
    /\ pc' = "call"
    /\ UNCHANGED <<argv, url, method_name, args, server, ints, attempts,
                   requests, stdout, stderr, exitcode>>

\* the connection breaks before the response arrives: socket.error
ConnectionLost ==
    /\ pc = "wait"
    /\ response' = [kind |-> "interrupted", value |-> NoneValue]
    /\ Raise("socket.error")
    /\ UNCHANGED <<argv, url, method_name, args, server, ints, attempts,
                   requests, stdout>>

\* print(<the returned value>)
PrintResult ==
    /\ pc = "print"
    /\ stdout' = Append(stdout, [kind |-> "result", text |-> str(response.value)])
    /\ pc' = "return"
    /\ UNCHANGED <<argv, url, method_name, args, server, ints, conn, attempts,
                   requests, response, stderr, exitcode>>

\* main returns and the script ends: status 0, the process's sockets are gone
Exit ==
    /\ pc = "return"
    /\ exitcode' = 0
    /\ conn' = "closed"
    /\ pc' = "done"
    /\ UNCHANGED <<argv, url, method_name, args, server, ints, attempts,
                   requests, response, stdout, stderr>>

Next ==
    \/ Start
    \/ Construct
    \/ Announce
    \/ Convert
    \/ Call
    \/ ReturnValue
    \/ ReturnFault
    \/ ConnectionLost
    \/ PrintResult
    \/ Exit

Spec == Init /\ [][Next]_vars

\* ------------------------------------------------------------------ vocabulary of the properties
Done == pc = "done"

Constructed == server # NoServer

\* the tokens of the command line, whether or not main has bound them yet
ArgTokens == IF Len(argv) < 2 THEN <<>> ELSE SubSeq(argv, 3, Len(argv))

BadToken == ~AllInts(ArgTokens)

ResultPrinted == \E i \in 1..Len(stdout) : stdout[i].kind = "result"

AnnounceCount == Cardinality({i \in 1..Len(stdout) : stdout[i].kind = "announce"})

Unreachable == Constructed /\ server.uri.host = "down"

\* the integers are converted: the script is past map(int, args)
Converted == pc \in {"call", "wait", "print", "return"} \/ (Done /\ attempts > 0)

IsDigit(c) == c \in DigitChars

RECURSIVE Pow10(_)
Pow10(k) == IF k = 0 THEN 1 ELSE 10 * Pow10(k - 1)

RECURSIVE WeightedSum(_)
WeightedSum(d) ==
    IF d = <<>> THEN 0
    ELSE DigitVal(Head(d)) * Pow10(Len(d) - 1) + WeightedSum(Tail(d))

\* the number a decimal literal denotes, by place value
DecimalValue(s) ==
    LET d == SelectSeq(s, IsDigit)
    IN  IF \E i \in 1..Len(s) : s[i] = "-" THEN 0 - WeightedSum(d) ELSE WeightedSum(d)

\* the strings between quotes in a printed tuple
RECURSIVE Unquote(_, _, _, _)
Unquote(s, inq, cur, acc) ==
    IF s = <<>> THEN acc
    ELSE IF Head(s) = "'"
         THEN IF inq THEN Unquote(Tail(s), FALSE, <<>>, Append(acc, cur))
              ELSE Unquote(Tail(s), TRUE, <<>>, acc)
         ELSE IF inq THEN Unquote(Tail(s), TRUE, Append(cur, Head(s)), acc)
              ELSE Unquote(Tail(s), FALSE, cur, acc)

QuotedFields(s) == Unquote(s, FALSE, <<>>, <<>>)

\* ------------------------------------------------------------------ C1
\* C1 as stated: whenever some token is not a valid integer, no connection is
\* ever attempted and the run ends with the invalid-argument error (ValueError).
C1_AsStated ==
    BadToken =>
        /\ attempts = 0 /\ requests = <<>> /\ conn = "closed"
        /\ Done => stderr = <<"ValueError">>

\* C1, amended: whenever some token is not a valid integer, no connection is
\* ever attempted and nothing is sent; and if proxy construction succeeded the
\* run ends with the invalid-argument error (ValueError) and status 1.
C1_BadTokenNoNetwork ==
    BadToken =>
        /\ attempts = 0 /\ requests = <<>> /\ conn = "closed"
        /\ (Done /\ Constructed) => (stderr = <<"ValueError">> /\ exitcode = 1)

\* a finished run whose second token is the bad one, the first being valid
C1_Witness ==
    /\ Done /\ Constructed /\ Len(args) = 2
    /\ IsIntLiteral(args[1]) /\ ~IsIntLiteral(args[2])
    /\ stderr = <<"ValueError">> /\ attempts = 0

\* ------------------------------------------------------------------ C2
\* C2: once the call is issued the announcement (method name, arguments, url)
\* is already the first line on stdout, and a result line only ever follows it.
C2_AnnounceBeforeCall ==
    /\ (attempts > 0 \/ requests # <<>>) =>
          /\ Len(stdout) >= 1
          /\ stdout[1] = [kind |-> "announce", method |-> method_name,
                          args |-> TupleRepr(args), url |-> url]
    /\ \A i \in 1..Len(stdout) :
          stdout[i].kind = "result" => (i > 1 /\ stdout[1].kind = "announce")

\* the add scenario: announcement, then the result
C2_Witness ==
    /\ Done /\ Len(requests) = 1 /\ Len(stdout) = 2
    /\ stdout[1].kind = "announce" /\ stdout[2].kind = "result"

\* ------------------------------------------------------------------ C3
\* C3: a finished run has status 0 exactly when the call returned a value and
\* that value (None included) was printed; every run ended by an exception
\* (missing url or method_name, a bad token, a transport failure, a fault) has
\* a non-zero status and the error on stderr.
C3_ExitCode ==
    Done =>
        /\ exitcode = 0 <=>
              /\ response.kind = "value"
              /\ Len(stdout) = 2
              /\ stdout[2] = [kind |-> "result", text |-> str(response.value)]
        /\ exitcode # 0 <=> stderr # <<>>
        /\ (Len(argv) < 2 \/ BadToken \/ response.kind \in {"fault", "interrupted"}
              \/ (Unreachable /\ attempts > 0))
             => (exitcode # 0 /\ stderr # <<>>)

\* the echo scenario: no arguments, the server returns None, status 0
C3_Witness ==
    /\ Done /\ exitcode = 0 /\ args = <<>>
    /\ response = [kind |-> "value", value |-> NoneValue]
    /\ stdout[2].text = <<"N", "o", "n", "e">>

C5_Fault ==
    response.kind = "fault" =>
        /\ ~ResultPrinted
        /\ Done /\ exitcode = 1 /\ stderr = <<"Fault">>

C5_Witness ==
    /\ Done /\ response.kind = "fault" /\ Len(requests) = 1
    /\ Len(args) = 1 /\ Len(stdout) = 1

\* ------------------------------------------------------------------ C6
\* C6: every request sent names method_name and carries the integer values of
\* the tokens, same count and same order (no tokens: no parameters).
C6_Request ==
    \A r \in 1..Len(requests) :
        /\ requests[r].method = method_name
        /\ Len(requests[r].params) = Len(args)
        /\ \A i \in 1..Len(args) : requests[r].params[i] = DecimalValue(args[i])

\* two arguments of different value, one of them negative
C6_Witness ==
    /\ Len(requests) = 1 /\ Len(args) = 2
    /\ args = << <<"-", "1">>, <<"0">> >>
    /\ requests[1].params = <<0 - 1, 0>>

\* ------------------------------------------------------------------ C7
\* C7: for valid tokens, converting to integers and displaying the integers
\* again gives as many items, each denoting the value of its token, in order.
C7_RoundTrip ==
    Converted =>
        /\ Len(ints) = Len(args)
        /\ \A i \in 1..Len(args) :
              /\ DecimalValue(str(IntValue(ints[i]))) = DecimalValue(args[i])
              /\ int(str(IntValue(ints[i]))) = ints[i]

\* "01" is displayed as "1": the value is kept, the text is not
C7_Witness ==
    /\ Converted
    /\ args = << <<"0", "1">>, <<"0">> >>
    /\ str(IntValue(ints[1])) = <<"1">>
    /\ str(IntValue(ints[2])) = <<"0">>

C10_AnnounceRawOnce ==
    /\ (Constructed /\ pc # "announce") =>
          /\ AnnounceCount = 1
          /\ stdout[1].kind = "announce"
          /\ QuotedFields(stdout[1].args) = args
    /\ stderr = <<"ValueError">> =>
          (Len(stdout) = 1 /\ attempts = 0 /\ requests = <<>>)

\* a bad token that is shown as typed, after which the run fails
C10_Witness ==
    /\ Done /\ stderr = <<"ValueError">>
    /\ args = << <<"1">>, <<"x">> >>
    /\ stdout[1].args = <<"(", "'", "1", "'", ",", " ", "'", "x", "'", ")">>

====
